---------------------------- MODULE Spec2Model ----------------------------
(***************************************************************************)
(* Auction-It bidding back end: the Auction and Bid collections, the       *)
(* placeBid request handler (bid controller), the createAuction,           *)
(* updateAuction and cancelAuction request handlers (auction controller)   *)
(* and the Socket.IO handlers of the server.  MaxArrivals requests arrive, *)
(* each for one of the handlers, and up to NumReqs of them run             *)
(* concurrently.                                                           *)
(*                                                                         *)
(* Every handler is an async function.  Between two awaits its code runs   *)
(* without interruption on the single Node.js thread, and every awaited    *)
(* store operation is applied by the store at one instant.  Each action    *)
(* below is one store operation together with the handler code that runs   *)
(* up to the next await, so concurrent requests interleave at the awaits,  *)
(* which is exactly where the program lets them interleave.                *)
(*                                                                         *)
(* Mongoose's save() of a loaded document writes the paths the handler     *)
(* modified in memory ($set of currentPrice/totalBids for placeBid, of     *)
(* status for cancelAuction) and checks no version for them.  An awaited   *)
(* store operation may also reject (document validation, store error): the *)
(* handler's catch block then answers 500.                                 *)
(*                                                                         *)
(* The requests in flight have no identity beyond their locals, so they    *)
(* are kept as a bag of records.                                           *)
(***************************************************************************)
EXTENDS Integers, Sequences, FiniteSets, Bags, TLC

\* ------------------------------------------------------------------ bounds
NumReqs    == 2     \* requests in flight at the same time
MaxArrivals == 3    \* requests that arrive
MaxTime    == 3     \* the clock runs over 0..MaxTime
MaxRaise   == 4     \* bid amounts range over StartPrice+1 .. StartPrice+MaxRaise

\* ------------------------------------------------------- sample documents
StartPrice   == 10
MinIncrement == 2
StartTime    == 1
EndTime      == 2

Times   == 0..MaxTime
Amounts == (StartPrice + 1)..(StartPrice + MaxRaise)
MaxBid  == StartPrice + MaxRaise

AuctionIds == {"a1"}
\* a second stored auction
SecondId   == "a2"
\* ids a request may carry: a stored auction, a well-formed id of no stored
\* auction, and a string that is no ObjectId
MissingId  == "a9"
InvalidId  == "zz"
RequestIds == AuctionIds \cup {MissingId, InvalidId}

Users == {"seller1", "bidder1"}
\* the users who ask to update or to cancel an auction
Callers == {"seller1", "seller2", "bidder1"}
Role(u) == IF u \in {"seller1", "seller2"} THEN "seller" ELSE "user"
\* middleware sellerOnly lets the request through
sellerOnly(u) == Role(u) \in {"seller", "admin"}
SellerOf(a) == "seller1"

\* mongoose.Types.ObjectId.isValid
IsValidObjectId(id) == id # InvalidId

NullDoc == [exists |-> FALSE]

\* Socket.IO clients
Sockets == {"s1", "s2"}
\* the rooms a socket can be in: auction-<id> for the ids a client may send,
\* and its personal room user-<userId>
UserRoom == "user"
RoomIds  == AuctionIds \cup {MissingId}
\* the data of a 'new-bid' message: whatever the client puts in it
BidData == [auctionId : RoomIds, currentPrice : {StartPrice + MinIncrement, MaxBid},
            totalBids : {1}]

\* req.body of updateAuction: the fields the handler copies into the Auction
\* update; 0 stands for a field the body does not carry
NoBody == [startPrice |-> 0, endTime |-> 0]
Bodies == {[startPrice |-> StartPrice + 1, endTime |-> 0],
           [startPrice |-> 0, endTime |-> StartTime],
           [startPrice |-> 0, endTime |-> EndTime + 1]}

\* req.body of createAuction: startPrice (0: the body lacks a required
\* field), startTime and endTime
CreateBodies == {[startPrice |-> StartPrice, startTime |-> t, endTime |-> MaxTime + 1] : t \in Times}
                \cup {[startPrice |-> 0, startTime |-> 0, endTime |-> MaxTime + 1]}

VARIABLES
    auctions,   \* Auction collection: id -> stored document
    bids,       \* Bid collection, in insertion order
    items,      \* Item collection: status of the item of each auction
    now,        \* the server clock (new Date())
    reqs,       \* the requests in flight: handler, position, inputs, in-memory document
    arrived,    \* number of requests that have arrived
    response,   \* the response sent last
    rooms,      \* Socket.IO: connected socket -> the auction rooms it is in
    event       \* Socket.IO: the event emitted last and the sockets it went to

vars == <<auctions, bids, items, now, reqs, arrived, response, rooms, event>>

\* ------------------------------------------------------------ the schema
\* auctionSchema: the paths the handlers read or write
AuctionDoc(status) ==
    [exists       |-> TRUE,
     seller       |-> "seller1",
     startPrice   |-> StartPrice,
     currentPrice |-> StartPrice,     \* default: this.startPrice
     minIncrement |-> MinIncrement,
     startTime    |-> StartTime,
     endTime      |-> EndTime,
     status       |-> status,
     totalBids    |-> 0,
     winner       |-> "none",         \* no default: unset
     finalPrice   |-> 0]              \* no default: unset

\* isActive without its comparison against endTime
isActiveNoEndCheck(doc, t) ==
    /\ doc.status = "active"
    /\ t >= doc.startTime

\* auctionSchema.methods.isActive
isActive(doc, t) ==
    /\ doc.status = "active"
    /\ t >= doc.startTime
    /\ t <= doc.endTime

\* auctionSchema.methods.hasStarted
hasStarted(doc, t) == t >= doc.startTime

\* auctionSchema.methods.hasEnded
hasEnded(doc, t) == t > doc.endTime

\* auctionSchema.methods.placeBid with its increment comparison off by one
placeBidErrorIncrementInclusive(doc, amount, t) ==
    IF ~isActive(doc, t) THEN "not_active"
    ELSE IF amount <= doc.currentPrice THEN "too_low"
    ELSE IF amount <= doc.currentPrice + doc.minIncrement THEN "increment_too_small"
    ELSE "ok"

\* auctionSchema.methods.placeBid: the error it throws, or "ok"
placeBidError(doc, amount, t) ==
    IF ~isActive(doc, t) THEN "not_active"
    ELSE IF amount <= doc.currentPrice THEN "too_low"
    ELSE IF amount < doc.currentPrice + doc.minIncrement THEN "increment_too_small"
    ELSE "ok"

\* auctionSchema.methods.placeBid: the document after a bid that passed
placeBidDoc(doc, amount) ==
    [doc EXCEPT !.currentPrice = amount, !.totalBids = doc.totalBids + 1]

\* Auction.findById
findById(id) == IF id \in DOMAIN auctions THEN auctions[id] ELSE NullDoc

\* bidSchema
BidDoc(a, u, m) == [auction |-> a, bidder |-> u, amount |-> m]

\* -------------------------------------------------------------- requests
\* the locals of a handler that has run up to its first await: its inputs,
\* the document findById returns (doc), which the handler goes on to modify,
\* and, as history, that document as it was read (seen); bid is the index of
\* the Bid document the handler holds (0: none)
Request(op, id, u, m, b) ==
    [op |-> op, pc |-> "found", auctionId |-> id, user |-> u, amount |-> m,
     body |-> b, doc |-> findById(id), seen |-> findById(id), bid |-> 0]

\* the requests in flight
Requests == BagToSet(reqs)

\* a request can arrive: a handler that has answered keeps nothing
Arrives ==
    /\ arrived < MaxArrivals
    /\ BagCardinality(reqs) < NumReqs

\* the requests in flight after q has moved on to q2
Becomes(q, q2) == (reqs (-) SetToBag({q})) (+) SetToBag({q2})

\* the requests in flight after q has answered
Returned(q) == reqs (-) SetToBag({q})

\* res.status(...).json(...): the handler that answers, the kind of answer
\* and the index of the Bid document the handler holds (0: none).  late is
\* history: the answer comes from checks run, by a bidder other than the
\* seller, after the end time of an auction stored as active.
Response(op, res, bid, late) == [op |-> op, res |-> res, bid |-> bid, late |-> late]

NoResponse == Response("none", "none", 0, FALSE)

\* io.to(room).emit('bid-updated', data): the data and, as history, how many
\* copies each socket was sent
Event(data, to) == [data |-> data, to |-> to]

NoEvent == Event([auctionId |-> "none", currentPrice |-> 0, totalBids |-> 0],
                 [s \in Sockets |-> 0])

\* The Auction collection holds one auction with the fields Auction.create
\* in createAuction gives it: currentPrice = startPrice, no bids, status
\* pending or active (the two values createAuction assigns; no handler of the
\* repository moves a stored auction from pending to active).  createAuction
\* assigns active only when startTime <= now, so the clock of an active
\* auction starts at startTime.  No request has arrived.
Init ==
    /\ auctions \in [AuctionIds -> {AuctionDoc("pending"), AuctionDoc("active")}]
    /\ bids = <<>>
    /\ items = [a \in AuctionIds |-> "in_auction"]
    /\ now = IF \E a \in AuctionIds : auctions[a].status = "active" THEN StartTime ELSE 0
    /\ reqs = EmptyBag
    /\ arrived = 0
    /\ response = NoResponse
    /\ rooms = <<>>
    /\ event = NoEvent

\* The same with two auctions stored, the first of them active (the two
\* have the same seller and the same terms, so which of them is the active
\* one makes no difference).
InitTwo ==
    /\ auctions \in [AuctionIds \cup {SecondId} -> {AuctionDoc("pending"), AuctionDoc("active")}]
    /\ \A a \in AuctionIds : auctions[a].status = "active"
    /\ bids = <<>>
    /\ items = [a \in AuctionIds \cup {SecondId} |-> "in_auction"]
    /\ now = IF \E a \in DOMAIN auctions : auctions[a].status = "active" THEN StartTime ELSE 0
    /\ reqs = EmptyBag
    /\ arrived = 0
    /\ response = NoResponse
    /\ rooms = <<>>
    /\ event = NoEvent

\* the clock advances
Tick ==
    /\ now < MaxTime
    /\ now' = now + 1
    /\ UNCHANGED <<arrived, auctions, bids, items, reqs, response, rooms, event>>

\* ------------------------------------------------------ placeBid handler
\* entry to the first await: the id check, then Auction.findById is applied.
\* A request whose id names no stored auction returns before its user or
\* amount is read, so one user and one amount stand for all of them.
PlaceBidFind ==
    /\ Arrives
    /\ arrived' = arrived + 1
    /\ \E id \in DOMAIN auctions \cup {MissingId, InvalidId}, u \in Users, m \in Amounts :
         /\ id \notin DOMAIN auctions => (u = "bidder1" /\ m = MaxBid)
         /\ IF ~IsValidObjectId(id)
            THEN /\ reqs' = reqs
                 /\ response' = Response("placeBid", "invalid_id", 0, FALSE)
            ELSE /\ reqs' = reqs (+) SetToBag({Request("placeBid", id, u, m, NoBody)})
                 /\ response' = response
    /\ UNCHANGED <<auctions, bids, items, now, rooms, event>>

\* the checks after findById without the seller check
PlaceBidVerdictNoSellerCheck(doc, user, amount, t) ==
    IF ~doc.exists THEN "not_found"
    ELSE placeBidError(doc, amount, t)

\* the checks after findById with the seller check after auction.placeBid
PlaceBidVerdictSellerCheckLast(doc, user, amount, t) ==
    IF ~doc.exists THEN "not_found"
    ELSE IF placeBidError(doc, amount, t) # "ok" THEN placeBidError(doc, amount, t)
    ELSE IF doc.seller = user THEN "self_bid"
    ELSE "ok"

\* the response the checks after findById give, "ok" when the bid passes them
PlaceBidVerdict(doc, user, amount, t) ==
    IF ~doc.exists THEN "not_found"
    ELSE IF doc.seller = user THEN "self_bid"
    ELSE placeBidError(doc, amount, t)

\* the checks with a rejection that returns without sending its response
PlaceBidValidateNoAnswer(q) ==
    /\ q.op = "placeBid"
    /\ q.pc = "found"
    /\ LET v == PlaceBidVerdict(q.doc, q.user, q.amount, now)
       IN  IF v = "ok"
           THEN reqs' = Becomes(q, [q EXCEPT !.pc = "creating",
                                             !.doc = placeBidDoc(q.doc, q.amount)])
           ELSE reqs' = Returned(q)
    /\ UNCHANGED <<arrived, auctions, bids, items, now, response, rooms, event>>

\* from findById's result to the next await: not-found, seller and
\* auction.placeBid checks; a bid that passes issues Bid.create
PlaceBidValidate(q) ==
    /\ q.op = "placeBid"
    /\ q.pc = "found"
    /\ LET v == PlaceBidVerdict(q.doc, q.user, q.amount, now)
       IN  IF v = "ok"
           THEN /\ reqs' = Becomes(q, [q EXCEPT !.pc = "creating",
                                                !.doc = placeBidDoc(q.doc, q.amount)])
                /\ response' = response
           ELSE /\ reqs' = Returned(q)
                /\ response' = Response("placeBid", v, 0,
                                        /\ q.doc.exists
                                        /\ q.user # q.doc.seller
                                        /\ auctions[q.auctionId].status = "active"
                                        /\ hasEnded(q.doc, now))
    /\ UNCHANGED <<arrived, auctions, bids, items, now, rooms, event>>

\* Bid.create followed by a second look at the stored price, which rejects
\* the bid when the price has moved past it
PlaceBidCreateThenRecheck(q) ==
    /\ q.op = "placeBid"
    /\ q.pc = "creating"
    /\ bids' = Append(bids, BidDoc(q.auctionId, q.user, q.amount))
    /\ IF q.amount <= auctions[q.auctionId].currentPrice
       THEN /\ reqs' = Returned(q)
            /\ response' = Response("placeBid", "too_low", 0, FALSE)
       ELSE /\ reqs' = Becomes(q, [q EXCEPT !.pc = "saving", !.bid = Len(bids) + 1])
            /\ response' = response
    /\ UNCHANGED <<arrived, auctions, items, now, rooms, event>>

\* Bid.create is applied; the handler then issues auction.save
PlaceBidCreate(q) ==
    /\ q.op = "placeBid"
    /\ q.pc = "creating"
    /\ bids' = Append(bids, BidDoc(q.auctionId, q.user, q.amount))
    /\ reqs' = Becomes(q, [q EXCEPT !.pc = "saving", !.bid = Len(bids) + 1])
    /\ UNCHANGED <<arrived, auctions, items, now, response, rooms, event>>

\* Bid.create rejects: nothing is stored, the catch block answers 500
PlaceBidCreateFail(q) ==
    /\ q.op = "placeBid"
    /\ q.pc = "creating"
    /\ reqs' = Returned(q)
    /\ response' = Response("placeBid", "error", 0, FALSE)
    /\ UNCHANGED <<arrived, auctions, bids, items, now, rooms, event>>

\* auction.save() storing the whole in-memory document
SavedBidWholeDocument(stored, doc) == doc

\* what auction.save() stores for a document placeBid modified
SavedBid(stored, doc) ==
    [stored EXCEPT !.currentPrice = doc.currentPrice, !.totalBids = doc.totalBids]

\* the stored document differs from the one the request read
Stale(stored, read) ==
    \/ stored.currentPrice # read.currentPrice
    \/ stored.totalBids # read.totalBids
    \/ stored.status # read.status

\* auction.save writing every stored auction instead of its own
PlaceBidSaveEveryAuction(q) ==
    /\ q.op = "placeBid"
    /\ q.pc = "saving"
    /\ auctions' = [a \in DOMAIN auctions |-> SavedBid(auctions[a], q.doc)]
    /\ reqs' = Returned(q)
    /\ response' = Response("placeBid", "accepted", q.bid, FALSE)
    /\ UNCHANGED <<arrived, bids, items, now, rooms, event>>

\* auction.save is applied, then the 201 response
PlaceBidSave(q) ==
    /\ q.op = "placeBid"
    /\ q.pc = "saving"
    /\ auctions' = [auctions EXCEPT ![q.auctionId] = SavedBid(@, q.doc)]
    /\ reqs' = Returned(q)
    /\ response' = Response("placeBid", "accepted", q.bid, FALSE)
    /\ UNCHANGED <<arrived, bids, items, now, rooms, event>>

\* auction.save rejects: the Bid stays, the catch block answers 500
PlaceBidSaveFail(q) ==
    /\ q.op = "placeBid"
    /\ q.pc = "saving"
    /\ reqs' = Returned(q)
    /\ response' = Response("placeBid", "error", q.bid, FALSE)
    /\ UNCHANGED <<arrived, auctions, bids, items, now, rooms, event>>

\* ------------------------------------------------- updateAuction handler
\* the route's sellerOnly, then entry to the first await: Auction.findById
\* is applied.  A request answered before its id or its body is read carries
\* one id and one body for all.
UpdateFind ==
    /\ Arrives
    /\ arrived' = arrived + 1
    /\ \E id \in DOMAIN auctions \cup {MissingId}, u \in Callers, b \in Bodies :
         /\ id \notin DOMAIN auctions => u # "seller1"
         /\ u = "bidder1" => id = MissingId
         /\ (id \notin DOMAIN auctions \/ u # SellerOf(id)) => b.startPrice # 0
         /\ IF ~sellerOnly(u)
            THEN /\ reqs' = reqs
                 /\ response' = Response("updateAuction", "seller_only", 0, FALSE)
            ELSE /\ reqs' = reqs (+) SetToBag({Request("updateAuction", id, u, 0, b)})
                 /\ response' = response
    /\ UNCHANGED <<auctions, bids, items, now, rooms, event>>

\* the response the checks of updateAuction give, "ok" when it may update
UpdateVerdict(doc, user, body, t) ==
    IF ~doc.exists THEN "not_found"
    ELSE IF doc.seller # user /\ Role(user) # "admin" THEN "forbidden"
    ELSE IF hasStarted(doc, t) /\ doc.status # "pending" THEN "started"
    ELSE IF body.endTime # 0 /\ body.endTime <= doc.startTime THEN "bad_end_time"
    ELSE "ok"

\* auctionUpdates applied to a stored document
auctionUpdates(stored, body) ==
    [stored EXCEPT !.startPrice = IF body.startPrice # 0 THEN body.startPrice ELSE @,
                   !.endTime = IF body.endTime # 0 THEN body.endTime ELSE @]

\* from findById's result to the next await: the checks, then
\* Auction.findByIdAndUpdate is issued (the body carries no Item field)
UpdateCheck(q) ==
    /\ q.op = "updateAuction"
    /\ q.pc = "found"
    /\ LET v == UpdateVerdict(q.doc, q.user, q.body, now)
       IN  IF v = "ok"
           THEN /\ reqs' = Becomes(q, [q EXCEPT !.pc = "updating"])
                /\ response' = response
           ELSE /\ reqs' = Returned(q)
                /\ response' = Response("updateAuction", v, 0, FALSE)
    /\ UNCHANGED <<arrived, auctions, bids, items, now, rooms, event>>

\* Auction.findByIdAndUpdate is applied, then the success response
UpdateApply(q) ==
    /\ q.op = "updateAuction"
    /\ q.pc = "updating"
    /\ auctions' = [auctions EXCEPT ![q.auctionId] = auctionUpdates(@, q.body)]
    /\ reqs' = Returned(q)
    /\ response' = Response("updateAuction", "updated", 0, FALSE)
    /\ UNCHANGED <<arrived, bids, items, now, rooms, event>>

\* Auction.findByIdAndUpdate rejects (runValidators, store error): the catch
\* block answers 500
UpdateFail(q) ==
    /\ q.op = "updateAuction"
    /\ q.pc = "updating"
    /\ reqs' = Returned(q)
    /\ response' = Response("updateAuction", "error", 0, FALSE)
    /\ UNCHANGED <<arrived, auctions, bids, items, now, rooms, event>>

\* ------------------------------------------------- cancelAuction handler
\* the route's sellerOnly, then entry to the first await: Auction.findById
\* is applied
CancelFind ==
    /\ Arrives
    /\ arrived' = arrived + 1
    /\ \E id \in DOMAIN auctions \cup {MissingId}, u \in Callers :
         /\ id \notin DOMAIN auctions => u # "seller1"
         /\ u = "bidder1" => id = MissingId
         /\ IF ~sellerOnly(u)
            THEN /\ reqs' = reqs
                 /\ response' = Response("cancelAuction", "seller_only", 0, FALSE)
            ELSE /\ reqs' = reqs (+) SetToBag({Request("cancelAuction", id, u, 0, NoBody)})
                 /\ response' = response
    /\ UNCHANGED <<auctions, bids, items, now, rooms, event>>

\* the checks of cancelAuction without the comparison with the seller
CancelVerdictNoOwnerCheck(doc, user) ==
    IF ~doc.exists THEN "not_found"
    ELSE IF doc.totalBids > 0 THEN "has_bids"
    ELSE "ok"

\* the response the checks of cancelAuction give, "ok" when it may cancel
CancelVerdict(doc, user) ==
    IF ~doc.exists THEN "not_found"
    ELSE IF doc.seller # user /\ Role(user) # "admin" THEN "forbidden"
    ELSE IF doc.totalBids > 0 THEN "has_bids"
    ELSE "ok"

\* from findById's result to the next await: the checks, then status is set
\* in memory and auction.save is issued
CancelCheck(q) ==
    /\ q.op = "cancelAuction"
    /\ q.pc = "found"
    /\ LET v == CancelVerdict(q.doc, q.user)
       IN  IF v = "ok"
           THEN /\ reqs' = Becomes(q, [q EXCEPT !.pc = "saving", !.doc.status = "cancelled"])
                /\ response' = response
           ELSE /\ reqs' = Returned(q)
                /\ response' = Response("cancelAuction", v, 0, FALSE)
    /\ UNCHANGED <<arrived, auctions, bids, items, now, rooms, event>>

\* auction.save is applied; the handler then issues Item.findByIdAndUpdate
CancelSave(q) ==
    /\ q.op = "cancelAuction"
    /\ q.pc = "saving"
    /\ auctions' = [auctions EXCEPT ![q.auctionId].status = q.doc.status]
    /\ reqs' = Becomes(q, [q EXCEPT !.pc = "item"])
    /\ UNCHANGED <<arrived, bids, items, now, response, rooms, event>>

\* Item.findByIdAndUpdate is applied, then the success response
CancelItem(q) ==
    /\ q.op = "cancelAuction"
    /\ q.pc = "item"
    /\ items' = [items EXCEPT ![q.auctionId] = "available"]
    /\ reqs' = Returned(q)
    /\ response' = Response("cancelAuction", "cancelled", 0, FALSE)
    /\ UNCHANGED <<arrived, auctions, bids, now, rooms, event>>

\* auction.save or Item.findByIdAndUpdate rejects: the catch block answers 500
CancelFail(q) ==
    /\ q.op = "cancelAuction"
    /\ q.pc \in {"saving", "item"}
    /\ reqs' = Returned(q)
    /\ response' = Response("cancelAuction", "error", 0, FALSE)
    /\ UNCHANGED <<arrived, auctions, bids, items, now, rooms, event>>

\* ------------------------------------------------- createAuction handler
\* the route's sellerOnly, then entry to the first await: the role and
\* required-field checks, then mongoose.startSession is issued.  A request
\* answered before its body is read carries one body for all.
CreateStart ==
    /\ Arrives
    /\ arrived' = arrived + 1
    /\ \E u \in Callers, b \in CreateBodies :
         /\ u = "bidder1" => b.startPrice = 0
         /\ IF ~sellerOnly(u)
            THEN /\ reqs' = reqs
                 /\ response' = Response("createAuction", "seller_only", 0, FALSE)
            ELSE IF b.startPrice = 0
            THEN /\ reqs' = reqs
                 /\ response' = Response("createAuction", "missing_fields", 0, FALSE)
            ELSE /\ reqs' = reqs (+) SetToBag({[Request("createAuction", "none", u, 0, b)
                                                  EXCEPT !.pc = "session"]})
                 /\ response' = response
    /\ UNCHANGED <<auctions, bids, items, now, rooms, event>>

\* startSession has answered and the transaction is started; building the
\* argument of Item.create reads the identifier images, which nothing
\* declares: the ReferenceError is caught and session.abortTransaction is
\* issued.  Item.create and Auction.create are never called.
CreateSession(q) ==
    /\ q.op = "createAuction"
    /\ q.pc = "session"
    /\ reqs' = Becomes(q, [q EXCEPT !.pc = "aborting"])
    /\ UNCHANGED <<arrived, auctions, bids, items, now, response, rooms, event>>

\* abortTransaction has answered (or rejected): the error is thrown on to the
\* outer catch block, which answers 500
CreateAbort(q) ==
    /\ q.op = "createAuction"
    /\ q.pc = "aborting"
    /\ reqs' = Returned(q)
    /\ response' = Response("createAuction", "error", 0, FALSE)
    /\ UNCHANGED <<arrived, auctions, bids, items, now, rooms, event>>

\* ------------------------------------------------------ Socket.IO server
\* io.on('connection'): the socket is in no auction room
Connect(s) ==
    /\ s \notin DOMAIN rooms
    /\ rooms' = [t \in DOMAIN rooms \cup {s} |-> IF t = s THEN {} ELSE rooms[t]]
    /\ UNCHANGED <<arrived, auctions, bids, items, now, reqs, response, event>>

\* socket.on('authenticate'): the socket joins its personal room
Authenticate(s) ==
    /\ s \in DOMAIN rooms
    /\ rooms' = [rooms EXCEPT ![s] = @ \cup {UserRoom}]
    /\ UNCHANGED <<arrived, auctions, bids, items, now, reqs, response, event>>

\* socket.on('join-auction')
JoinAuction(s, id) ==
    /\ s \in DOMAIN rooms
    /\ rooms' = [rooms EXCEPT ![s] = @ \cup {id}]
    /\ UNCHANGED <<arrived, auctions, bids, items, now, reqs, response, event>>

\* socket.on('leave-auction')
LeaveAuction(s, id) ==
    /\ s \in DOMAIN rooms
    /\ rooms' = [rooms EXCEPT ![s] = @ \ {id}]
    /\ UNCHANGED <<arrived, auctions, bids, items, now, reqs, response, event>>

\* io.to(room).emit with io.emit in its place: every connected socket
EmitToAll(room) == [s \in Sockets |-> IF s \in DOMAIN rooms THEN 1 ELSE 0]

\* io.to(room).emit: one copy to every socket that is in the room
EmitTo(room) ==
    [s \in Sockets |-> IF s \in DOMAIN rooms /\ room \in rooms[s] THEN 1 ELSE 0]

\* socket.on('new-bid'): the data a client sent is emitted as 'bid-updated'
\* to the room the data names
NewBid(s, data) ==
    /\ s \in DOMAIN rooms
    /\ arrived < MaxArrivals
    /\ arrived' = arrived + 1
    /\ event' = Event(data, EmitTo(data.auctionId))
    /\ UNCHANGED <<auctions, bids, items, now, reqs, response, rooms>>

\* the client goes away: Socket.IO takes the socket out of its rooms, the
\* 'disconnect' handler logs
Disconnect(s) ==
    /\ s \in DOMAIN rooms
    /\ rooms' = [t \in DOMAIN rooms \ {s} |-> rooms[t]]
    /\ UNCHANGED <<arrived, auctions, bids, items, now, reqs, response, event>>

\* ------------------------------------------------------ specifications
Next ==
    \/ Tick
    \/ PlaceBidFind
    \/ \E q \in Requests : PlaceBidValidate(q)
    \/ \E q \in Requests : PlaceBidCreate(q)
    \/ \E q \in Requests : PlaceBidCreateFail(q)
    \/ \E q \in Requests : PlaceBidSave(q)
    \/ \E q \in Requests : PlaceBidSaveFail(q)
    \/ CancelFind
    \/ \E q \in Requests : CancelCheck(q)
    \/ \E q \in Requests : CancelSave(q)
    \/ \E q \in Requests : CancelItem(q)
    \/ \E q \in Requests : CancelFail(q)
    \/ UpdateFind
    \/ \E q \in Requests : UpdateCheck(q)
    \/ \E q \in Requests : UpdateApply(q)
    \/ \E q \in Requests : UpdateFail(q)

Spec == Init /\ [][Next]_vars

\* the same program with a store that never rejects an operation
NextNoFault ==
    \/ Tick
    \/ PlaceBidFind
    \/ \E q \in Requests : PlaceBidValidate(q)
    \/ \E q \in Requests : PlaceBidCreate(q)
    \/ \E q \in Requests : PlaceBidSave(q)
    \/ CancelFind
    \/ \E q \in Requests : CancelCheck(q)
    \/ \E q \in Requests : CancelSave(q)
    \/ \E q \in Requests : CancelItem(q)
    \/ UpdateFind
    \/ \E q \in Requests : UpdateCheck(q)
    \/ \E q \in Requests : UpdateApply(q)

SpecNoFault == Init /\ [][NextNoFault]_vars

\* the auction controller's handlers, with a store that never rejects an
\* operation
NextCreate ==
    \/ Tick
    \/ CreateStart
    \/ \E q \in Requests : CreateSession(q)
    \/ \E q \in Requests : CreateAbort(q)
    \/ CancelFind
    \/ \E q \in Requests : CancelCheck(q)
    \/ \E q \in Requests : CancelSave(q)
    \/ \E q \in Requests : CancelItem(q)
    \/ UpdateFind
    \/ \E q \in Requests : UpdateCheck(q)
    \/ \E q \in Requests : UpdateApply(q)

SpecCreate == Init /\ [][NextCreate]_vars

\* the same with two auctions stored, while the clock stands at their
\* startTime
NextTwo ==
    \/ PlaceBidFind
    \/ \E q \in Requests : PlaceBidValidate(q)
    \/ \E q \in Requests : PlaceBidCreate(q)
    \/ \E q \in Requests : PlaceBidSave(q)
    \/ CancelFind
    \/ \E q \in Requests : CancelCheck(q)
    \/ \E q \in Requests : CancelSave(q)
    \/ \E q \in Requests : CancelItem(q)
    \/ UpdateFind
    \/ \E q \in Requests : UpdateCheck(q)
    \/ \E q \in Requests : UpdateApply(q)

SpecTwo == InitTwo /\ [][NextTwo]_vars

\* the program serving one request at a time, with a store that never
\* rejects an operation: a request arrives only when none is in flight
NextSolo ==
    \/ Tick
    \/ (reqs = EmptyBag /\ PlaceBidFind)
    \/ \E q \in Requests : PlaceBidValidate(q)
    \/ \E q \in Requests : PlaceBidCreate(q)
    \/ \E q \in Requests : PlaceBidSave(q)
    \/ (reqs = EmptyBag /\ CancelFind)
    \/ \E q \in Requests : CancelCheck(q)
    \/ \E q \in Requests : CancelSave(q)
    \/ \E q \in Requests : CancelItem(q)
    \/ (reqs = EmptyBag /\ UpdateFind)
    \/ \E q \in Requests : UpdateCheck(q)
    \/ \E q \in Requests : UpdateApply(q)

SpecSolo == Init /\ [][NextSolo]_vars

\* a handler in flight runs on: the store answers every operation it was
\* handed, and the event loop runs the continuation
Continue ==
    \E q \in Requests :
        \/ PlaceBidValidate(q) \/ PlaceBidCreate(q) \/ PlaceBidCreateFail(q)
        \/ PlaceBidSave(q) \/ PlaceBidSaveFail(q)
        \/ CancelCheck(q) \/ CancelSave(q) \/ CancelItem(q) \/ CancelFail(q)
        \/ UpdateCheck(q) \/ UpdateApply(q) \/ UpdateFail(q)
        \/ CreateSession(q) \/ CreateAbort(q)

\* the program with a clock that keeps running and handlers that run on
SpecFair == Init /\ [][Next]_vars /\ WF_vars(Tick) /\ WF_vars(Continue)

\* the realtime side of the server on its own
NextSockets ==
    \/ \E s \in Sockets : Connect(s)
    \/ \E s \in Sockets : Authenticate(s)
    \/ \E s \in Sockets, id \in RoomIds : JoinAuction(s, id)
    \/ \E s \in Sockets, id \in RoomIds : LeaveAuction(s, id)
    \/ \E s \in Sockets, data \in BidData : NewBid(s, data)
    \/ \E s \in Sockets : Disconnect(s)

SpecSockets == Init /\ [][NextSockets]_vars

\* the realtime side next to the bidding side serving one placeBid request
\* at a time, with a store that never rejects an operation; a handler in
\* flight runs on, while what the clients send, and when, is up to them
NextRealtime ==
    \/ Tick
    \/ (reqs = EmptyBag /\ PlaceBidFind)
    \/ \E q \in Requests : PlaceBidValidate(q)
    \/ \E q \in Requests : PlaceBidCreate(q)
    \/ \E q \in Requests : PlaceBidSave(q)
    \/ NextSockets

SpecRealtime == Init /\ [][NextRealtime]_vars /\ WF_vars(Tick) /\ WF_vars(Continue)

\* the bid controller on its own, with a clock that keeps running and
\* handlers that run on
NextBids ==
    \/ Tick
    \/ PlaceBidFind
    \/ \E q \in Requests : PlaceBidValidate(q)
    \/ \E q \in Requests : PlaceBidCreate(q)
    \/ \E q \in Requests : PlaceBidCreateFail(q)
    \/ \E q \in Requests : PlaceBidSave(q)
    \/ \E q \in Requests : PlaceBidSaveFail(q)

SpecFairBids == Init /\ [][NextBids]_vars /\ WF_vars(Tick) /\ WF_vars(Continue)

TypeOK ==
    /\ now \in Times
    /\ \A a \in AuctionIds : auctions[a].status \in {"pending", "active", "cancelled"}
    /\ \A q \in Requests : q.op \in {"placeBid", "updateAuction", "cancelAuction", "createAuction"}
    /\ \A q \in Requests : q.pc \in {"found", "creating", "saving", "item", "updating",
                                     "session", "aborting"}
    /\ BagCardinality(reqs) <= NumReqs
    /\ arrived \in 0..MaxArrivals

\* ---------------------------------------------------------------- helpers
InFlight(q) == q.op = "placeBid" /\ q.pc \in {"found", "creating", "saving"}
Settled == \A q \in Requests : ~InFlight(q)
BidsOf(a) == {i \in DOMAIN bids : bids[i].auction = a}
OnAuction(q) == q.op = "placeBid" /\ q.auctionId \in DOMAIN auctions
\* q is taking a step: one request as q is in flight no longer
Moves(q) == CopiesIn(q, reqs') < CopiesIn(q, reqs)
\* q is taking the step from findById's result through its checks
Validates(q) == q.op = "placeBid" /\ q.pc = "found" /\ Moves(q)
\* q is taking the step in which its auction.save is applied
Commits(q) ==
    /\ q.op = "placeBid"
    /\ q.pc = "saving"
    /\ Moves(q)
    /\ response'.res = "accepted"
\* q runs its checks as the seller of the auction it names
SellerValidates(q) ==
    /\ Validates(q)
    /\ OnAuction(q)
    /\ q.user = auctions[q.auctionId].seller
\* q runs its checks, as a bidder other than the seller, after the end time
\* of an auction whose stored status is active
ObservesEnded(q) ==
    /\ Validates(q)
    /\ q.doc.exists
    /\ q.user # q.doc.seller
    /\ auctions[q.auctionId].status = "active"
    /\ now > q.doc.endTime
\* the Bid record created last for auction a
LastBid(a) == bids[CHOOSE i \in BidsOf(a) : \A j \in BidsOf(a) : j <= i]

\* ----------------------------------------------------------------- claims

\* C1: every value an auction.save of placeBid stores in currentPrice is
\* strictly greater than the value stored before it, and no step decreases
\* the stored currentPrice.
PriceStrictlyIncreasing ==
    /\ [][\A q \in Requests : Commits(q) =>
             auctions'[q.auctionId].currentPrice > auctions[q.auctionId].currentPrice]_vars
    /\ [][\A a \in AuctionIds :
             auctions'[a].currentPrice >= auctions[a].currentPrice]_vars

\* C2: once every placeBid request in flight has returned, totalBids equals
\* the number of Bid records of the auction.
TotalBidsEqualsBidCount ==
    Settled => \A a \in AuctionIds : auctions[a].totalBids = Cardinality(BidsOf(a))

\* C3: of the requests that bid the same amount on the same auction at most
\* one creates a Bid record, and a request is accepted only if no other Bid
\* record of its auction has its amount.
NoDoubleAccept ==
    /\ [](\A i, j \in DOMAIN bids :
            (bids[i].auction = bids[j].auction /\ bids[i].amount = bids[j].amount) => i = j)
    /\ [][\A q \in Requests : Commits(q) =>
             \A i \in DOMAIN bids :
                 (bids[i].auction = q.auctionId /\ bids[i].amount = q.amount)
                 => i = q.bid]_vars

\* C4: when the auction update of a bid is written, the bid's amount is at
\* least the currentPrice stored at that instant plus minIncrement.
BidMeetsIncrementAtCommit ==
    [][\A q \in Requests : Commits(q) =>
          q.amount >= auctions[q.auctionId].currentPrice
                        + auctions[q.auctionId].minIncrement]_vars

\* C5: at most one placeBid request per auction is between its read of the
\* auction and the completion of its write.
AtMostOneCommitInFlight ==
    \A q1, q2 \in Requests :
        (/\ q1.op = "placeBid" /\ q1.pc \in {"creating", "saving"}
         /\ q2.op = "placeBid" /\ q2.pc \in {"creating", "saving"}
         /\ q1.auctionId = q2.auctionId)
        => (q1 = q2 /\ CopiesIn(q1, reqs) = 1)

\* C6: a bid is committed only if the stored currentPrice, totalBids and
\* status are still the ones the request read.
CommitsOnlyOnUnchangedRecord ==
    [][\A q \in Requests : Commits(q) =>
          ~Stale(auctions[q.auctionId], q.seen)]_vars

\* C7: a placeBid request that is answered with an error leaves no Bid record.
NoBidOfFailedRequest ==
    (response.op = "placeBid" /\ response.res = "error") => response.bid \notin DOMAIN bids

\* C8: a request by the seller of the auction it names is answered with the
\* self-bid rejection by its checks, whatever the amount, the status and the
\* time, in a step that stores nothing; no Bid record has its auction's
\* seller as bidder.
SellerBidRejected ==
    /\ [][\A q \in Requests : SellerValidates(q) =>
             /\ reqs' = Returned(q)
             /\ response' = Response("placeBid", "self_bid", 0, FALSE)
             /\ auctions' = auctions
             /\ bids' = bids]_vars
    /\ [](\A q \in Requests :
             (OnAuction(q) /\ q.user = auctions[q.auctionId].seller)
             => q.pc = "found")
    /\ [](\A i \in DOMAIN bids : bids[i].bidder # auctions[bids[i].auction].seller)

\* C8 witness: the seller has just been answered with the self-bid rejection
\* while the auction is active and inside its time window
SellerBidRejectedWitness ==
    /\ response.res = "self_bid"
    /\ \E a \in AuctionIds : isActive(auctions[a], now)

\* C9: a request that observes now > endTime on an auction stored as active
\* is rejected as not active in that step, which changes no auction and no
\* Bid record; it holds no Bid record.
LateBidRejected ==
    /\ [][\A q \in Requests : ObservesEnded(q) =>
             /\ reqs' = Returned(q)
             /\ response' = Response("placeBid", "not_active", 0, TRUE)
             /\ auctions' = auctions
             /\ bids' = bids]_vars
    /\ [](response.late => (response.res = "not_active" /\ response.bid = 0))

\* C9 witness: a late request has just been rejected as not active and the
\* auction is still stored as active after its end time
LateBidRejectedWitness ==
    /\ response.late
    /\ response.res = "not_active"
    /\ \E a \in AuctionIds : auctions[a].status = "active" /\ hasEnded(auctions[a], now)

\* C10: the request that observes now > endTime on an auction stored as
\* active leaves the stored status ended (no bids) or sold (some bids).
LateBidEndsAuction ==
    [][\A q \in Requests : ObservesEnded(q) =>
          auctions'[q.auctionId].status =
              IF auctions'[q.auctionId].totalBids = 0 THEN "ended" ELSE "sold"]_vars

\* C11: an auction whose stored status is cancelled has totalBids = 0 and no
\* Bid record, in every reachable state.
CancelledHasNoBids ==
    \A a \in AuctionIds :
        auctions[a].status = "cancelled" =>
            (auctions[a].totalBids = 0 /\ BidsOf(a) = {})

\* C12: every change of an auction's stored status follows an edge of the
\* graph draft->pending->active->{ended, cancelled, sold} plus
\* pending->cancelled; a cancelAuction step changes a status only from
\* pending or active; an auction stored as ended, sold or cancelled keeps
\* its status.
StatusFollowsGraph ==
    /\ [][\A a \in AuctionIds :
             auctions'[a].status # auctions[a].status =>
                 <<auctions[a].status, auctions'[a].status>> \in
                     {<<"draft", "pending">>, <<"pending", "active">>,
                      <<"active", "ended">>, <<"active", "cancelled">>,
                      <<"active", "sold">>, <<"pending", "cancelled">>}]_vars
    /\ [][\A q \in Requests :
             (q.op = "cancelAuction" /\ Moves(q) /\ q.auctionId \in AuctionIds
              /\ auctions'[q.auctionId].status # auctions[q.auctionId].status)
             => auctions[q.auctionId].status \in {"pending", "active"}]_vars
    /\ [][\A a \in AuctionIds :
             auctions[a].status \in {"ended", "sold", "cancelled"} =>
                 auctions'[a].status = auctions[a].status]_vars

\* C12 witness: cancelAuction has just answered that it cancelled the
\* auction, and the auction is stored as cancelled
StatusFollowsGraphWitness ==
    /\ response.op = "cancelAuction"
    /\ response.res = "cancelled"
    /\ \E a \in AuctionIds : auctions[a].status = "cancelled"

\* C13: an auction stored as active whose endTime has passed is eventually
\* closed: ended without winner if it has no bids, else sold to the bidder
\* of its most recent Bid record at that record's amount.
ActiveAuctionEventuallyCloses ==
    \A a \in AuctionIds :
        (auctions[a].status = "active" /\ now > auctions[a].endTime)
            ~> IF auctions[a].totalBids = 0
               THEN /\ auctions[a].status = "ended"
                    /\ auctions[a].winner = "none"
               ELSE /\ auctions[a].status = "sold"
                    /\ BidsOf(a) # {}
                    /\ auctions[a].winner = LastBid(a).bidder
                    /\ auctions[a].finalPrice = LastBid(a).amount

\* C14: an auction stored as pending whose startTime has come is eventually
\* stored as active, unless it is cancelled.
PendingAuctionEventuallyActive ==
    \A a \in AuctionIds :
        (auctions[a].status = "pending" /\ now >= auctions[a].startTime)
            ~> (auctions[a].status \in {"active", "cancelled"})

\* C15: with one request at a time, the checks of a placeBid by a bidder
\* other than the seller on an auction that is active inside its time window
\* pass iff amount >= currentPrice + minIncrement; a bid with
\* amount <= currentPrice is answered too-low and one in between
\* increment-too-small, storing nothing; a bid that passed adds exactly one
\* Bid record (auction, bidder, amount) and is answered accepted with the
\* stored currentPrice = amount and totalBids one more than before.
SoloBidOutcome ==
    /\ [][\A q \in Requests :
             (Validates(q) /\ q.doc.exists /\ q.user # q.doc.seller /\ isActive(q.doc, now)) =>
                 IF q.amount >= q.doc.currentPrice + q.doc.minIncrement
                 THEN /\ \E q2 \in BagToSet(reqs') : q2.pc = "creating" /\ q2.amount = q.amount
                      /\ response' = response
                 ELSE /\ reqs' = Returned(q)
                      /\ response'.res = IF q.amount <= q.doc.currentPrice
                                         THEN "too_low" ELSE "increment_too_small"
                      /\ auctions' = auctions
                      /\ bids' = bids]_vars
    /\ [][\A q \in Requests :
             (q.op = "placeBid" /\ q.pc = "creating" /\ Moves(q)) =>
                 /\ bids' = Append(bids, BidDoc(q.auctionId, q.user, q.amount))
                 /\ auctions' = auctions]_vars
    /\ [][\A q \in Requests :
             (q.op = "placeBid" /\ q.pc = "saving" /\ Moves(q)) =>
                 /\ response' = Response("placeBid", "accepted", q.bid, FALSE)
                 /\ auctions'[q.auctionId].currentPrice = q.amount
                 /\ auctions'[q.auctionId].totalBids = auctions[q.auctionId].totalBids + 1
                 /\ bids' = bids
                 /\ bids[q.bid] = BidDoc(q.auctionId, q.user, q.amount)
                 /\ Cardinality(BidsOf(q.auctionId)) = auctions[q.auctionId].totalBids + 1]_vars

\* C15 witness: a bid of exactly currentPrice + minIncrement has just been
\* accepted as the first bid of the auction
SoloBidOutcomeWitness ==
    /\ response.res = "accepted"
    /\ \E a \in AuctionIds :
          /\ auctions[a].totalBids = 1
          /\ auctions[a].currentPrice = auctions[a].startPrice + auctions[a].minIncrement
          /\ Cardinality(BidsOf(a)) = 1

\* C16 as stated: the not-active check precedes the self-bid check, so the
\* seller's bid on an auction that is not active is answered not-active.
NotActiveBeforeSelfBid ==
    [][\A q \in Requests :
          (SellerValidates(q) /\ ~isActive(q.doc, now)) => response'.res = "not_active"]_vars

\* C16 as amended: the self-bid check precedes the not-active check, which
\* precedes the amount checks: on an auction that is not active the seller's
\* bid is answered self-bid and anyone else's not-active, whatever the amount.
SelfBidBeforeNotActive ==
    [][\A q \in Requests :
          (Validates(q) /\ q.doc.exists /\ ~isActive(q.doc, now)) =>
              /\ response'.op = "placeBid"
              /\ response'.res = IF q.user = q.doc.seller THEN "self_bid" ELSE "not_active"
              /\ reqs' = Returned(q)
              /\ auctions' = auctions
              /\ bids' = bids]_vars

\* C16 witness: the seller has just been answered with the self-bid
\* rejection on an auction that is pending, so was never active
SelfBidBeforeNotActiveWitness ==
    /\ response.res = "self_bid"
    /\ \A a \in AuctionIds : auctions[a].status = "pending"

\* C17: while an auction is stored as active, no step decreases its stored
\* totalBids.
TotalBidsNeverDecreases ==
    [][\A a \in AuctionIds :
          auctions[a].status = "active" => auctions'[a].totalBids >= auctions[a].totalBids]_vars

\* C18: once no placeBid request is in flight, the stored currentPrice of an
\* auction with Bid records is the amount of the Bid record created last,
\* which is also its highest amount, and that of an auction without Bid
\* records is its startPrice.
PriceIsLastBid ==
    Settled =>
        \A a \in AuctionIds :
            IF BidsOf(a) = {}
            THEN auctions[a].currentPrice = auctions[a].startPrice
            ELSE /\ auctions[a].currentPrice = LastBid(a).amount
                 /\ \A i \in BidsOf(a) : bids[i].amount <= LastBid(a).amount

\* C19: the Bid records only grow: every step keeps the records there are
\* and adds at most one, created by a placeBid request; every request that
\* created a Bid record is answered accepted.
BidsOnlyGrow ==
    /\ [][/\ Len(bids') >= Len(bids)
          /\ \A i \in DOMAIN bids : bids'[i] = bids[i]]_vars
    /\ [][bids' # bids =>
             /\ Len(bids') = Len(bids) + 1
             /\ \E q \in Requests :
                   /\ q.op = "placeBid"
                   /\ Moves(q)
                   /\ bids'[Len(bids')] = BidDoc(q.auctionId, q.user, q.amount)]_vars
    /\ [][\A q \in Requests :
             (q.op = "placeBid" /\ q.bid # 0 /\ Moves(q)) => response'.res = "accepted"]_vars

\* C20: once an auction's stored status is anything other than pending, no
\* step changes its stored startTime or endTime.
TimesFrozenAfterPending ==
    [][\A a \in AuctionIds :
          auctions[a].status # "pending" =>
              /\ auctions'[a].startTime = auctions[a].startTime
              /\ auctions'[a].endTime = auctions[a].endTime]_vars

\* C21 as stated: every 'bid-updated' event delivered to the room of an
\* auction carries the auction and the amount of a Bid record that is stored,
\* and a price and a count the stored auction has reached.
BidUpdatedMatchesStore ==
    (\E s \in Sockets : event.to[s] > 0) =>
        /\ event.data.auctionId \in DOMAIN auctions
        /\ \E i \in DOMAIN bids :
              /\ bids[i].auction = event.data.auctionId
              /\ bids[i].amount = event.data.currentPrice
        /\ auctions[event.data.auctionId].currentPrice >= event.data.currentPrice
        /\ auctions[event.data.auctionId].totalBids >= event.data.totalBids

\* C22 as stated: after a placeBid request is answered accepted while a
\* socket is in the room of its auction, an event carrying the auction and
\* the amount of its Bid record, which is the new currentPrice, is
\* eventually emitted.
AcceptedBidPublished ==
    \A a \in AuctionIds, m \in Amounts :
        (/\ response.res = "accepted"
         /\ bids[response.bid] = BidDoc(a, "bidder1", m)
         /\ \E s \in DOMAIN rooms : a \in rooms[s])
            ~> (event.data.auctionId = a /\ event.data.currentPrice = m)

\* C23: an emitted event goes at most once to a socket, and only to sockets
\* that are connected and in the room of the auction the event names: a
\* socket that never joined it, that left it or that joined only the room of
\* another auction gets none.
RelayOnlyToRoom ==
    /\ [][arrived' # arrived =>
             \A s \in Sockets :
                 /\ event'.to[s] <= 1
                 /\ event'.to[s] = 1 =>
                       (s \in DOMAIN rooms /\ event'.data.auctionId \in rooms[s])]_vars
    /\ [][\A s \in Sockets, id \in RoomIds :
             (s \in DOMAIN rooms' /\ id \in rooms'[s]) =>
                 \/ (s \in DOMAIN rooms /\ id \in rooms[s])
                 \/ (s \in DOMAIN rooms /\ rooms' = [rooms EXCEPT ![s] = @ \cup {id}])]_vars
    /\ [](\A s \in Sockets : event.to[s] <= 1)

\* C23 witness: an event for auction a1 went to s1, which is in its room, and
\* not to s2, which is connected and in the room of another auction only
RelayOnlyToRoomWitness ==
    /\ event.data.auctionId = "a1"
    /\ event.to["s1"] = 1
    /\ event.to["s2"] = 0
    /\ "s2" \in DOMAIN rooms
    /\ rooms["s2"] = {MissingId}

\* C24: a step of a placeBid, cancelAuction or updateAuction request changes
\* no field of an auction other than the one it names, nor that auction's
\* item, nor any Bid record of it; and what the checks of a placeBid request
\* answer is decided by the document it read from its own auction, its user,
\* its amount and the clock.
AuctionsIndependent ==
    /\ [][\A q \in Requests : Moves(q) =>
             \A b \in DOMAIN auctions \ {q.auctionId} :
                 /\ auctions'[b] = auctions[b]
                 /\ items'[b] = items[b]
                 /\ {i \in DOMAIN bids' : bids'[i].auction = b} = BidsOf(b)
                 /\ \A i \in BidsOf(b) : bids'[i] = bids[i]]_vars
    /\ [][\A q \in Requests : (Validates(q) /\ OnAuction(q)) =>
             IF PlaceBidVerdict(q.seen, q.user, q.amount, now) = "ok"
             THEN response' = response
             ELSE response'.res = PlaceBidVerdict(q.seen, q.user, q.amount, now)]_vars

\* C24 witness: a bid has just been accepted, and the two auctions hold one
\* bid each at different prices
AuctionsIndependentWitness ==
    /\ response.res = "accepted"
    /\ auctions["a1"].totalBids = 1
    /\ auctions[SecondId].totalBids = 1
    /\ auctions["a1"].currentPrice # auctions[SecondId].currentPrice

\* C25 as stated: a createAuction request by a seller that carries the
\* required fields is answered created, and its answer leaves a new auction
\* stored with status active when its startTime <= now and pending
\* otherwise, currentPrice = startPrice and totalBids = 0.
CreateStoresByStartTime ==
    [][\A q \in Requests :
          (q.op = "createAuction" /\ Moves(q) /\ response' # response) =>
              /\ response'.res = "created"
              /\ \E a \in DOMAIN auctions' \ DOMAIN auctions :
                    /\ auctions'[a].status =
                          IF q.body.startTime <= now THEN "active" ELSE "pending"
                    /\ auctions'[a].currentPrice = auctions'[a].startPrice
                    /\ auctions'[a].totalBids = 0]_vars

\* C26: whenever placeBid requests are in flight, eventually none is,
\* whatever other requests are in flight; the step in which a placeBid
\* request returns sends one response, which is an acceptance, a rejection
\* with its reason or an error, and no other step of it sends one.
EveryBidAnswered ==
    /\ (~Settled) ~> Settled
    /\ [][\A q \in Requests : (q.op = "placeBid" /\ Moves(q)) =>
             IF BagCardinality(reqs') < BagCardinality(reqs)
             THEN /\ response'.op = "placeBid"
                  /\ response'.res \in {"accepted", "not_found", "self_bid", "not_active",
                                        "too_low", "increment_too_small", "error"}
             ELSE response' = response]_vars
    /\ [][(response' # response /\ response'.op = "placeBid") =>
             \/ BagCardinality(reqs') < BagCardinality(reqs)
             \/ (response'.res = "invalid_id" /\ reqs' = reqs)]_vars

\* C26 witness: a placeBid request has just been answered accepted while
\* another one is in flight, waiting for its auction.save
EveryBidAnsweredWitness ==
    /\ response.op = "placeBid"
    /\ response.res = "accepted"
    /\ \E q \in Requests : q.op = "placeBid" /\ q.pc = "saving"

\* the rejections of placeBid: invalid id, auction not found, self-bid,
\* auction not active, amount too low, increment too small
BidRejections ==
    {"invalid_id", "not_found", "self_bid", "not_active", "too_low", "increment_too_small"}

\* C27: a placeBid request that is rejected changes nothing that is stored:
\* the step in which it returns with a rejection leaves every auction, every
\* Bid record and every item as they were, and it is the request's first
\* step after its read, so the request has created no Bid record before.
RejectedBidStoresNothing ==
    /\ [][\A q \in Requests :
             (q.op = "placeBid" /\ Moves(q)
              /\ BagCardinality(reqs') < BagCardinality(reqs)
              /\ response'.res \in BidRejections) =>
                 /\ q.pc = "found"
                 /\ q.bid = 0
                 /\ auctions' = auctions
                 /\ bids' = bids
                 /\ items' = items]_vars
    /\ [][\A q \in Requests :
             (Validates(q) /\ PlaceBidVerdict(q.doc, q.user, q.amount, now) # "ok") =>
                 /\ response'.res = PlaceBidVerdict(q.doc, q.user, q.amount, now)
                 /\ response'.res \in BidRejections
                 /\ auctions' = auctions
                 /\ bids' = bids]_vars
    /\ [][(response' # response /\ response'.res = "invalid_id") =>
             (auctions' = auctions /\ bids' = bids /\ reqs' = reqs)]_vars

\* C27 witness: a bid has just been rejected because its increment is too
\* small, after one bid was accepted: the price and the count are those of
\* the accepted bid and its Bid record is the only one
RejectedBidStoresNothingWitness ==
    /\ response.res = "increment_too_small"
    /\ \E a \in AuctionIds :
          /\ auctions[a].currentPrice = StartPrice + MinIncrement
          /\ auctions[a].totalBids = 1
    /\ Len(bids) = 1

\* C28 as stated: an updateAuction request by the seller that runs its
\* checks when now >= startTime of the auction it read is rejected as
\* started, whatever the stored status, in a step that changes no auction;
\* and no step changes the stored startPrice, minIncrement or endTime of an
\* auction whose startTime has passed.
NoUpdateAfterStart ==
    /\ [][\A q \in Requests :
             (/\ q.op = "updateAuction" /\ q.pc = "found" /\ Moves(q)
              /\ q.doc.exists /\ q.user = q.doc.seller
              /\ hasStarted(q.doc, now)) =>
                 /\ response' = Response("updateAuction", "started", 0, FALSE)
                 /\ reqs' = Returned(q)
                 /\ auctions' = auctions]_vars
    /\ [][\A a \in AuctionIds :
             hasStarted(auctions[a], now) =>
                 /\ auctions'[a].startPrice = auctions[a].startPrice
                 /\ auctions'[a].minIncrement = auctions[a].minIncrement
                 /\ auctions'[a].endTime = auctions[a].endTime]_vars

\* C29: a cancelAuction or updateAuction request by a user who is neither the
\* seller of the auction it read nor an administrator is answered 403 by its
\* checks (or, for a user who is no seller at all, by the route before the
\* handler runs), in a step that changes no auction, item or Bid record; such
\* a request never gets past its checks.
NonOwnerRejected ==
    /\ [][\A q \in Requests :
             (/\ q.op \in {"cancelAuction", "updateAuction"} /\ q.pc = "found" /\ Moves(q)
              /\ q.doc.exists /\ q.user # q.doc.seller /\ Role(q.user) # "admin") =>
                 /\ response' = Response(q.op, "forbidden", 0, FALSE)
                 /\ reqs' = Returned(q)
                 /\ auctions' = auctions
                 /\ items' = items
                 /\ bids' = bids]_vars
    /\ [][(response' # response /\ response'.res = "seller_only") =>
             (reqs' = reqs /\ auctions' = auctions /\ items' = items /\ bids' = bids)]_vars
    /\ [](\A q \in Requests :
             (/\ q.op \in {"cancelAuction", "updateAuction"}
              /\ q.doc.exists /\ q.user # q.doc.seller /\ Role(q.user) # "admin")
             => q.pc = "found")

\* C29 witness: a seller who does not own the auction has just been refused
\* its cancellation, and the auction is still active with its item in auction
NonOwnerRejectedWitness ==
    /\ response = Response("cancelAuction", "forbidden", 0, FALSE)
    /\ \E a \in AuctionIds : auctions[a].status = "active" /\ items[a] = "in_auction"

\* C30 as stated: in every reachable state the stored currentPrice of an
\* auction is at least its stored startPrice, and no Bid record has an amount
\* below the startPrice of its auction.
PriceAtLeastStartPrice ==
    /\ \A a \in AuctionIds : auctions[a].currentPrice >= auctions[a].startPrice
    /\ \A i \in DOMAIN bids : bids[i].amount >= auctions[bids[i].auction].startPrice
=============================================================================
